---- MODULE Spec2Model ----
(***************************************************************************)
(* Craterra: an authenticated REST API over a document store (users,       *)
(* albums) and an image host.  A request travels through the route's       *)
(* middleware chain (isAuth, isOwner, upload) into its controller; every    *)
(* await of the code is a step boundary, so requests in different slots     *)
(* interleave exactly where the Node.js event loop lets them.              *)
(***************************************************************************)
EXTENDS Integers, Sequences, FiniteSets, TLC

VARIABLES
  users,       \* the User collection: id -> document
  albums,      \* the Album collection: id -> document
  cloud,       \* asset ids held by the image host
  issued,      \* ids for which loginUser has signed a token
  nextUser,    \* next fresh User _id
  nextAlbum,   \* next fresh Album _id
  nextAsset,   \* next fresh asset public_id
  req          \* per slot: the request in flight (req/res objects and the handler's position)

vars == <<users, albums, cloud, issued, nextUser, nextAlbum, nextAsset, req>>

\* Bounds of the model: how many documents / assets are ever created.
MaxUsers == 2
MaxAlbums == 2
MaxAssets == 2

Slots == {"r1", "r2"}

NoId == 0

(***************************************************************************)
(* Strings are sequences of one-character strings, so that trim() and      *)
(* toLowerCase() are computed and not assumed.                             *)
(***************************************************************************)
ToLowerChar(c) ==
  CASE c = "A" -> "a"
    [] c = "B" -> "b"
    [] c = "X" -> "x"
    [] c = "Y" -> "y"
    [] OTHER -> c

ToLowerCase(s) == [i \in 1..Len(s) |-> ToLowerChar(s[i])]

RECURSIVE TrimStart(_)
TrimStart(s) == IF s # <<>> /\ Head(s) = " " THEN TrimStart(Tail(s)) ELSE s

RECURSIVE TrimEnd(_)
TrimEnd(s) ==
  IF s # <<>> /\ s[Len(s)] = " " THEN TrimEnd(SubSeq(s, 1, Len(s) - 1)) ELSE s

Trim(s) == TrimEnd(TrimStart(s))

\* title.trim().toLowerCase() / artists.map(a => a.trim().toLowerCase())
NormalizeTitle(title) == ToLowerCase(Trim(title))
NormalizeArtists(artists) ==
  [i \in 1..Len(artists) |-> ToLowerCase(Trim(artists[i]))]

\* The schema's setters: title and every artist are stored trimmed (trim: true),
\* and nothing else is done to them.
CastTitle(title) == Trim(title)
CastArtists(artists) == [i \in 1..Len(artists) |-> Trim(artists[i])]

Range(s) == {s[i] : i \in 1..Len(s)}

\* f without the key k / f with k set to v
Drop(f, k) == [x \in DOMAIN f \ {k} |-> f[x]]
Put(f, k, v) == [x \in DOMAIN f \cup {k} |-> IF x = k THEN v ELSE f[x]]

(***************************************************************************)
(* Passwords.  bcrypt.hash / bcrypt.compare: a hash is a value distinct    *)
(* from every plain password, and compare succeeds on the hashed plain     *)
(* text only.  Length is the plain text's length.                          *)
(***************************************************************************)
PwShort == "pw12"
PwLong == "pw12345678"
PwOther == "other12345"
PwLength(p) == IF p = PwShort THEN 4 ELSE 10
MinPasswordLength == 8
Hash(p) == <<"bcrypt", p>>
Compare(p, h) == h = Hash(p)

(***************************************************************************)
(* Tokens.  A request carries no Authorization header, a token that does   *)
(* not verify (malformed, tampered, expired), or a token signed by         *)
(* generateToken for a user id.                                            *)
(***************************************************************************)
NoToken == [kind |-> "none", id |-> NoId]
BadToken == [kind |-> "bad", id |-> NoId]
GenerateToken(id) == [kind |-> "jwt", id |-> id]

\* verifyToken: the decoded payload, or the thrown error.
VerifyToken(tok) ==
  IF tok.kind = "jwt"
    THEN [ok |-> TRUE, id |-> tok.id, status |-> 0]
    ELSE [ok |-> FALSE, id |-> NoId, status |-> 401]

(***************************************************************************)
(* Routes: the routers' tables.                                            *)
(***************************************************************************)
AlbumRoutes == {"getMyAlbums", "postAlbum", "getAlbumById", "updateAlbum", "deleteAlbum"}
UserRoutes == {"getMyProfile", "updateMyProfile", "changeMyPassword", "deleteMyAccount"}
AdminRoutes == {"getAllAlbums", "adminDeleteAlbum", "getAllUsers", "deleteUser"}
PublicRoutes == {"registerUser", "loginUser"}
GuardedRoutes == AlbumRoutes \cup UserRoutes \cup AdminRoutes

\* router.use(isAuth(...)): the roles each router passes to isAuth
AllowedRolesNone(route) == <<>>
AllowedRoles(route) == IF route \in AdminRoutes THEN <<"admin">> ELSE <<>>
\* the routes with isOwner in their chain
OwnerRoutes == {"getAlbumById", "updateAlbum", "deleteAlbum"}
\* the routes with upload.single(...) in their chain
UploadRoutes == {"postAlbum", "updateAlbum", "updateMyProfile", "registerUser"}
\* the routes with an :id parameter
ParamRoutes == OwnerRoutes \cup {"adminDeleteAlbum", "deleteUser"}


(***************************************************************************)
(* Request and response objects.                                           *)
(***************************************************************************)
NoAlbum == [id |-> NoId]          \* req.album before isOwner has set it
Null == [kind |-> "null"]         \* a null / undefined data argument

CreateError(status, message) == [status |-> status, msg |-> message]
\* an exception that is not made by createError carries no status
Thrown(message) == [status |-> 0, msg |-> message]

\* what a client sends: route, Authorization header, :id, body, attached file
NewRequest(route, tok, pid, body, fileId) ==
  [pc |-> IF route \in GuardedRoutes THEN "isAuth"
          ELSE IF route \in UploadRoutes THEN "upload" ELSE route,
   route |-> route, tok |-> tok, pid |-> pid, body |-> body, fileId |-> fileId,
   user |-> NoId, role |-> "", album |-> NoAlbum, file |-> NoId, prev |-> NoId,
   err |-> Thrown(""), failed |-> "",
   status |-> 0, success |-> FALSE, msg |-> "", data |-> Null, trace |-> <<>>]

\* sendResponse: data is put in the response only when it is truthy
SendResponse(q, statusCode, success, message, data) ==
  [q EXCEPT !.pc = "done", !.status = statusCode, !.success = success,
            !.msg = message, !.data = data]

\* index.js error handler: err.status || 500, err.message || "Unexpected error"
ErrorHandlerIgnoresStatus(q, error) ==
  [q EXCEPT !.pc = "done", !.status = 500, !.success = FALSE,
            !.msg = "Unexpected error", !.data = [kind |-> "null"]]
ErrorHandler(q, error) ==
  SendResponse(q,
               IF error.status # 0 THEN error.status ELSE 500,
               FALSE,
               IF error.msg # "" THEN error.msg ELSE "Unexpected error",
               Null)

\* next(error) from the stage `stage`
NextError(q, stage, error) ==
  ErrorHandler([q EXCEPT !.failed = stage, !.err = error], error)

Stage(q, name) == [q EXCEPT !.trace = Append(@, name)]

\* the middleware or controller that next() reaches after isAuth / isOwner
AfterAuth(route) ==
  IF route \in OwnerRoutes THEN "isOwner"
  ELSE IF route \in UploadRoutes THEN "upload" ELSE route
AfterOwner(route) == IF route \in UploadRoutes THEN "upload" ELSE route

(***************************************************************************)
(* isAuth(allowedRoles)                                                    *)
(***************************************************************************)
\* allowedRoles.length && !allowedRoles.includes(user.role)
RoleDeniedNoEmptyCase(allowedRoles, role) == role \notin Range(allowedRoles)
RoleDenied(allowedRoles, role) ==
  Len(allowedRoles) # 0 /\ role \notin Range(allowedRoles)

\* the stage that follows a role check that denied (none: the error is thrown)
IsAuthDeniedFallsThrough(q, role) ==
  [Stage(q, "role") EXCEPT !.pc = AfterAuth(q.route)]
IsAuthDenied(q, role) ==
  NextError(Stage(q, "role"), "role",
            CreateError(403, IF role = "admin" THEN "Access denied for role: admin"
                                               ELSE "Access denied for role: user"))

\* the stage that follows a findById that found no user (none: 401 is thrown)
IsAuthNoUserFallsThrough(q) == [Stage(q, "role") EXCEPT !.pc = AfterAuth(q.route)]
IsAuthNoUser(q) ==
  NextError(q, "principal", CreateError(401, "Unauthorized: No user found in request"))

IsAuthResult(q, allowedRoles, store) ==
  LET q1 == Stage(q, "token") IN
  IF q.tok.kind = "none"
    THEN NextError(q1, "token", CreateError(401, "No token provided"))
  ELSE
  LET q2 == Stage(q1, "verify")
      decoded == VerifyToken(q.tok) IN
  IF ~decoded.ok
    THEN NextError(q2, "verify", CreateError(decoded.status, "invalid token"))
  ELSE
  LET q3 == Stage(q2, "principal") IN
  IF decoded.id \notin DOMAIN store
    THEN IsAuthNoUser(q3)
  ELSE
  LET q4 == [q3 EXCEPT !.user = decoded.id, !.role = store[decoded.id].role] IN
  IF RoleDenied(allowedRoles, store[decoded.id].role)
    THEN IsAuthDenied(q4, store[decoded.id].role)
    ELSE [Stage(q4, "role") EXCEPT !.pc = AfterAuth(q.route)]

IsAuth(r) ==
  /\ req[r].pc = "isAuth"
  /\ req' = [req EXCEPT ![r] = IsAuthResult(@, AllowedRoles(@.route), users)]
  /\ UNCHANGED <<users, albums, cloud, issued, nextUser, nextAlbum, nextAsset>>

(***************************************************************************)
(* isOwner                                                                 *)
(***************************************************************************)
\* album.addedBy.toString() !== req.user.id
NotOwnerNever(album, userId) == FALSE
NotOwner(album, userId) == album.addedBy # userId

IsOwnerResult(q, store) ==
  LET q1 == Stage(q, "owner") IN
  IF q.pid \notin DOMAIN store
    THEN NextError(q1, "owner", CreateError(404, "Album not found"))
  ELSE IF NotOwner(store[q.pid], q.user)
    THEN NextError(q1, "owner", CreateError(403, "Not authorized"))
  ELSE [q1 EXCEPT !.album = store[q.pid], !.pc = AfterOwner(q.route)]

IsOwner(r) ==
  /\ req[r].pc = "isOwner"
  /\ req' = [req EXCEPT ![r] = IsOwnerResult(@, albums)]
  /\ UNCHANGED <<users, albums, cloud, issued, nextUser, nextAlbum, nextAsset>>

(***************************************************************************)
(* upload.single(field): the attached file, if any, is stored at the image *)
(* host and described by req.file.                                         *)
(***************************************************************************)
Upload(r) ==
  /\ req[r].pc = "upload"
  /\ req' = [req EXCEPT ![r].pc = req[r].route, ![r].file = req[r].fileId]
  /\ cloud' = IF req[r].fileId # NoId THEN cloud \cup {req[r].fileId} ELSE cloud
  /\ UNCHANGED <<users, albums, issued, nextUser, nextAlbum, nextAsset>>

\* deleteImgCloudinary: destroy may fail; the failure is logged and swallowed
DeleteImgCloudinary(assets, publicId, destroyed) ==
  IF publicId # NoId /\ destroyed THEN assets \ {publicId} ELSE assets


(***************************************************************************)
(* albums.controllers                                                      *)
(***************************************************************************)
Has(body, field) == field \in DOMAIN body

\* the catch block of postAlbum / updateAlbum / registerUser: with an uploaded
\* file the cleanup is awaited before next(error); without, next(error) at once
CatchNoCleanup(q, error, catchPc) == NextError(q, "handler", error)
Catch(q, error, catchPc) ==
  IF q.file # NoId
    THEN [q EXCEPT !.pc = catchPc, !.err = error, !.failed = "handler"]
    ELSE NextError(q, "handler", error)

\* the end of the catch block: deleteImgCloudinary has returned (it swallows a
\* failed destroy) and the caught error goes to next(error)
AfterCleanupEscalates(q, destroyed) ==
  IF destroyed THEN NextError(q, "handler", q.err)
  ELSE NextError(q, "handler", Thrown("cloudinary destroy failed"))
AfterCleanup(q, destroyed) == NextError(q, "handler", q.err)

\* ids of `store` in descending order (sort({createdAt: -1}))
RECURSIVE Descending(_)
Descending(ids) ==
  IF ids = {} THEN <<>>
  ELSE LET m == CHOOSE x \in ids : \A y \in ids : y <= x
       IN <<m>> \o Descending(ids \ {m})

AlbumList(store, ids) ==
  [kind |-> "albums",
   docs |-> [i \in 1..Cardinality(ids) |-> store[Descending(ids)[i]]]]

GetMyAlbums(r) ==
  /\ req[r].pc = "getMyAlbums"
  /\ LET q == Stage(req[r], "handler")
         mine == {a \in DOMAIN albums : albums[a].addedBy = q.user}
     IN req' = [req EXCEPT ![r] =
                  IF mine = {}
                    THEN SendResponse(q, 200, TRUE, "You haven't added any albums yet",
                                      AlbumList(albums, {}))
                    ELSE SendResponse(q, 200, TRUE, "Albums fetched successfully",
                                      AlbumList(albums, mine))]
  /\ UNCHANGED <<users, albums, cloud, issued, nextUser, nextAlbum, nextAsset>>

GetAlbumById(r) ==
  /\ req[r].pc = "getAlbumById"
  /\ req' = [req EXCEPT ![r] =
               SendResponse(Stage(@, "handler"), 200, TRUE, "Album fetched successfully",
                            [kind |-> "album", doc |-> @.album])]
  /\ UNCHANGED <<users, albums, cloud, issued, nextUser, nextAlbum, nextAsset>>

\* Album.findOne({title, artists: {$all: artists, $size: artists.length}, addedBy}):
\* $all holds when every listed value is an element of the stored array (and of no
\* document when the list is empty), $size when the stored array has that length.
AlbumMatchesAnyOwner(doc, title, artists, addedBy) ==
  /\ doc.title = title
  /\ artists # <<>>
  /\ Range(artists) \subseteq Range(doc.artists)
  /\ Len(doc.artists) = Len(artists)
AlbumMatches(doc, title, artists, addedBy) ==
  /\ doc.title = title
  /\ artists # <<>>
  /\ Range(artists) \subseteq Range(doc.artists)
  /\ Len(doc.artists) = Len(artists)
  /\ doc.addedBy = addedBy

AlbumExist(store, title, artists, addedBy) ==
  \E a \in DOMAIN store : AlbumMatches(store[a], title, artists, addedBy)

BodyArtists(body) == IF Has(body, "artists") THEN body.artists ELSE <<>>

\* schema validation of a document built from `body`: title required (an empty
\* string is not a value), every artist required, format / releaseDate as sent
AlbumValid(body) ==
  /\ Has(body, "title") /\ CastTitle(body.title) # <<>>
  /\ \A i \in 1..Len(BodyArtists(body)) : CastArtists(BodyArtists(body))[i] # <<>>
  /\ body.valid

\* new Album({...req.body, addedBy}) with the cover of req.file
NewAlbumOwnerFromBody(id, body, addedBy, file) ==
  [id |-> id, title |-> CastTitle(body.title), artists |-> CastArtists(BodyArtists(body)),
   addedBy |-> IF Has(body, "addedBy") THEN body.addedBy ELSE addedBy,
   coverArtId |-> file]
NewAlbum(id, body, addedBy, file) ==
  [id |-> id, title |-> CastTitle(body.title), artists |-> CastArtists(BodyArtists(body)),
   addedBy |-> addedBy, coverArtId |-> file]

\* postAlbum up to the await of findOne's result
PostAlbum(r) ==
  /\ req[r].pc = "postAlbum"
  /\ LET q == Stage(req[r], "handler") IN
     req' = [req EXCEPT ![r] =
       IF ~Has(q.body, "title")
         THEN Catch(q, Thrown("TypeError: Cannot read properties of undefined (reading 'trim')"),
                    "postAlbum.catch")
       ELSE IF AlbumExist(albums, NormalizeTitle(q.body.title),
                          NormalizeArtists(BodyArtists(q.body)), q.user)
         THEN Catch(q, CreateError(400, "This album already exists in your collection"),
                    "postAlbum.catch")
       ELSE [q EXCEPT !.pc = "postAlbum.save"]]
  /\ UNCHANGED <<users, albums, cloud, issued, nextUser, nextAlbum, nextAsset>>

\* newAlbum.save() and the response
PostAlbumSaveUnique(r) ==
  /\ req[r].pc = "postAlbum.save"
  /\ LET q == req[r] IN
     IF AlbumValid(q.body)
          /\ ~\E a \in DOMAIN albums :
                /\ albums[a].addedBy = q.user
                /\ albums[a].title = CastTitle(q.body.title)
                /\ albums[a].artists = CastArtists(BodyArtists(q.body))
       THEN LET doc == NewAlbum(nextAlbum, q.body, q.user, q.file) IN
            /\ albums' = Put(albums, nextAlbum, doc)
            /\ nextAlbum' = nextAlbum + 1
            /\ req' = [req EXCEPT ![r] =
                 SendResponse(q, 201, TRUE, "Album created successfully",
                              [kind |-> "album", doc |-> doc])]
       ELSE /\ req' = [req EXCEPT ![r] =
                 Catch(q, Thrown("E11000 duplicate key error"), "postAlbum.catch")]
            /\ UNCHANGED <<albums, nextAlbum>>
  /\ UNCHANGED <<users, cloud, issued, nextUser, nextAsset>>
PostAlbumSave(r) ==
  /\ req[r].pc = "postAlbum.save"
  /\ LET q == req[r] IN
     IF AlbumValid(q.body)
       THEN LET doc == NewAlbum(nextAlbum, q.body, q.user, q.file) IN
            /\ albums' = Put(albums, nextAlbum, doc)
            /\ nextAlbum' = nextAlbum + 1
            /\ req' = [req EXCEPT ![r] =
                 SendResponse(q, 201, TRUE, "Album created successfully",
                              [kind |-> "album", doc |-> doc])]
       ELSE /\ req' = [req EXCEPT ![r] =
                 Catch(q, Thrown("Album validation failed"), "postAlbum.catch")]
            /\ UNCHANGED <<albums, nextAlbum>>
  /\ UNCHANGED <<users, cloud, issued, nextUser, nextAsset>>

PostAlbumCatch(r) ==
  /\ req[r].pc = "postAlbum.catch"
  /\ \E destroyed \in BOOLEAN :
       /\ cloud' = DeleteImgCloudinary(cloud, req[r].file, destroyed)
       /\ req' = [req EXCEPT ![r] = AfterCleanup(@, destroyed)]
  /\ UNCHANGED <<users, albums, issued, nextUser, nextAlbum, nextAsset>>


\* the document after findByIdAndUpdate(id, {...req.body, cover of req.file})
UpdatedAlbum(doc, body, file) ==
  [doc EXCEPT !.title = IF Has(body, "title") THEN CastTitle(body.title) ELSE @,
              !.artists = IF Has(body, "artists") THEN CastArtists(body.artists) ELSE @,
              !.addedBy = IF Has(body, "addedBy") THEN body.addedBy ELSE @,
              !.coverArtId = IF file # NoId THEN file ELSE @]

\* runValidators: the validators of the paths the update sets
UpdateValid(body) ==
  /\ Has(body, "title") => CastTitle(body.title) # <<>>
  /\ body.valid

\* updateAlbum up to the await of findById's result
UpdateAlbum(r) ==
  /\ req[r].pc = "updateAlbum"
  /\ LET q == Stage(req[r], "handler") IN
     req' = [req EXCEPT ![r] =
       IF q.pid \notin DOMAIN albums
         THEN Catch(q, CreateError(404, "Album not found"), "updateAlbum.catch")
         ELSE [q EXCEPT !.pc = "updateAlbum.update", !.prev = albums[q.pid].coverArtId]]
  /\ UNCHANGED <<users, albums, cloud, issued, nextUser, nextAlbum, nextAsset>>

\* findByIdAndUpdate and what follows it up to the next await
UpdateAlbumUpdate(r) ==
  /\ req[r].pc = "updateAlbum.update"
  /\ LET q == req[r]
         updated == IF q.pid \in DOMAIN albums
                      THEN [kind |-> "album", doc |-> UpdatedAlbum(albums[q.pid], q.body, q.file)]
                      ELSE Null
     IN
     IF ~UpdateValid(q.body)
       THEN /\ req' = [req EXCEPT ![r] =
                 Catch(q, Thrown("Validation failed"), "updateAlbum.catch")]
            /\ UNCHANGED albums
       ELSE /\ albums' = IF q.pid \in DOMAIN albums
                           THEN [albums EXCEPT ![q.pid] = updated.doc] ELSE albums
            /\ req' = [req EXCEPT ![r] =
                 IF q.file # NoId /\ q.prev # NoId
                   THEN [q EXCEPT !.pc = "updateAlbum.deleteOld", !.data = updated]
                   ELSE SendResponse(q, 200, TRUE, "Album updated successfully", updated)]
  /\ UNCHANGED <<users, cloud, issued, nextUser, nextAlbum, nextAsset>>

\* deleteImgCloudinary(prev.coverArtId) and the response
UpdateAlbumDeleteOld(r) ==
  /\ req[r].pc = "updateAlbum.deleteOld"
  /\ \E destroyed \in BOOLEAN :
       cloud' = DeleteImgCloudinary(cloud, req[r].prev, destroyed)
  /\ req' = [req EXCEPT ![r] =
               SendResponse(@, 200, TRUE, "Album updated successfully", @.data)]
  /\ UNCHANGED <<users, albums, issued, nextUser, nextAlbum, nextAsset>>

UpdateAlbumCatch(r) ==
  /\ req[r].pc = "updateAlbum.catch"
  /\ \E destroyed \in BOOLEAN :
       /\ cloud' = DeleteImgCloudinary(cloud, req[r].file, destroyed)
       /\ req' = [req EXCEPT ![r] = AfterCleanup(@, destroyed)]
  /\ UNCHANGED <<users, albums, issued, nextUser, nextAlbum, nextAsset>>

\* The body shared by albums.controllers deleteAlbum and admin.controllers
\* deleteAlbum, first part: req.album.coverArtId is read (a TypeError when no
\* middleware has set req.album) and the cover, if any, is destroyed.
DeleteAlbumBegin(r, deletePc) ==
  LET q == Stage(req[r], "handler") IN
  IF q.album = NoAlbum
    THEN /\ req' = [req EXCEPT ![r] =
              NextError(q, "handler",
                Thrown("TypeError: Cannot read properties of undefined (reading 'coverArtId')"))]
         /\ UNCHANGED <<albums, cloud>>
  ELSE IF q.album.coverArtId # NoId
    THEN /\ \E destroyed \in BOOLEAN :
              cloud' = DeleteImgCloudinary(cloud, q.album.coverArtId, destroyed)
         /\ req' = [req EXCEPT ![r] = [q EXCEPT !.pc = deletePc]]
         /\ UNCHANGED albums
  ELSE /\ albums' = Drop(albums, q.album.id)
       /\ req' = [req EXCEPT ![r] =
            SendResponse(q, 200, TRUE, "Album deleted successfully",
                         [kind |-> "album", doc |-> q.album])]
       /\ UNCHANGED cloud

\* second part: Album.findByIdAndDelete(req.album._id) and the response
DeleteAlbumFinish(r) ==
  /\ albums' = Drop(albums, req[r].album.id)
  /\ req' = [req EXCEPT ![r] =
       SendResponse(@, 200, TRUE, "Album deleted successfully",
                    [kind |-> "album", doc |-> @.album])]
  /\ UNCHANGED cloud

DeleteAlbum(r) ==
  /\ req[r].pc = "deleteAlbum"
  /\ DeleteAlbumBegin(r, "deleteAlbum.delete")
  /\ UNCHANGED <<users, issued, nextUser, nextAlbum, nextAsset>>

DeleteAlbumDelete(r) ==
  /\ req[r].pc = "deleteAlbum.delete"
  /\ DeleteAlbumFinish(r)
  /\ UNCHANGED <<users, issued, nextUser, nextAlbum, nextAsset>>

(***************************************************************************)
(* admin.controllers                                                       *)
(***************************************************************************)
\* populate("addedBy", "name email"): the owner's name and email, or null
Populated(doc, people) ==
  [id |-> doc.id, title |-> doc.title, artists |-> doc.artists,
   coverArtId |-> doc.coverArtId,
   owner |-> IF doc.addedBy \in DOMAIN people
               THEN <<[id |-> doc.addedBy, name |-> people[doc.addedBy].name,
                       email |-> people[doc.addedBy].email]>>
               ELSE <<>>]

\* ids in ascending order (the collection's natural order)
Ascending(ids) ==
  LET d == Descending(ids) IN [i \in 1..Len(d) |-> d[Len(d) + 1 - i]]

GetAllAlbums(r) ==
  /\ req[r].pc = "getAllAlbums"
  /\ req' = [req EXCEPT ![r] =
       SendResponse(Stage(@, "handler"), 200, TRUE, "Albums fetched successfully",
         [kind |-> "populated",
          docs |-> [i \in 1..Cardinality(DOMAIN albums) |->
                      Populated(albums[Ascending(DOMAIN albums)[i]], users)]])]
  /\ UNCHANGED <<users, albums, cloud, issued, nextUser, nextAlbum, nextAsset>>

AdminDeleteAlbum(r) ==
  /\ req[r].pc = "adminDeleteAlbum"
  /\ DeleteAlbumBegin(r, "adminDeleteAlbum.delete")
  /\ UNCHANGED <<users, issued, nextUser, nextAlbum, nextAsset>>

GetAllUsers(r) ==
  /\ req[r].pc = "getAllUsers"
  /\ req' = [req EXCEPT ![r] =
       SendResponse(Stage(@, "handler"), 200, TRUE, "Users fetched successfully",
         [kind |-> "users",
          docs |-> [i \in 1..Cardinality(DOMAIN users) |->
                      users[Ascending(DOMAIN users)[i]]]])]
  /\ UNCHANGED <<users, albums, cloud, issued, nextUser, nextAlbum, nextAsset>>

\* deleteUser up to the await that follows findByIdAndDelete: createError is not
\* imported by admin.controllers, so `throw createError(...)` is a ReferenceError
DeleteUser(r) ==
  /\ req[r].pc = "deleteUser"
  /\ LET q == Stage(req[r], "handler") IN
     IF q.pid \notin DOMAIN users
       THEN /\ req' = [req EXCEPT ![r] =
                 NextError(q, "handler", Thrown("createError is not defined"))]
            /\ UNCHANGED users
       ELSE /\ users' = Drop(users, q.pid)
            /\ req' = [req EXCEPT ![r] =
                 IF users[q.pid].img # NoId
                   THEN [q EXCEPT !.pc = "deleteUser.image", !.prev = users[q.pid].img,
                                  !.data = [kind |-> "user", doc |-> users[q.pid]]]
                   ELSE SendResponse(q, 200, TRUE, "User deleted successfully",
                                     [kind |-> "user", doc |-> users[q.pid]])]
  /\ UNCHANGED <<albums, cloud, issued, nextUser, nextAlbum, nextAsset>>

DeleteUserImage(r) ==
  /\ req[r].pc = "deleteUser.image"
  /\ \E destroyed \in BOOLEAN :
       cloud' = DeleteImgCloudinary(cloud, req[r].prev, destroyed)
  /\ req' = [req EXCEPT ![r] =
       SendResponse(@, 200, TRUE, "User deleted successfully", @.data)]
  /\ UNCHANGED <<users, albums, issued, nextUser, nextAlbum, nextAsset>>


(***************************************************************************)
(* users.controllers                                                       *)
(***************************************************************************)
\* a body field that is present and truthy (a non-empty string); Text for the
\* fields modelled as character sequences, Word for the atomic ones
TruthyText(body, field) == Has(body, field) /\ body[field] # <<>>
TruthyWordNever(body, field) == FALSE
TruthyWord(body, field) == Has(body, field) /\ body[field] # ""

\* .select("-password") / delete userResponse.password
WithoutPassword(doc) == [f \in DOMAIN doc \ {"password"} |-> doc[f]]

NormalizeEmail(email) == Trim(ToLowerCase(email))

GetMyProfile(r) ==
  /\ req[r].pc = "getMyProfile"
  /\ LET q == Stage(req[r], "handler") IN
     req' = [req EXCEPT ![r] =
       IF q.user \notin DOMAIN users
         THEN NextError(q, "handler", CreateError(404, "User not found"))
         ELSE SendResponse(q, 200, TRUE, "User fetched successfully",
                [kind |-> "user", doc |-> WithoutPassword(users[q.user])])]
  /\ UNCHANGED <<users, albums, cloud, issued, nextUser, nextAlbum, nextAsset>>

\* updateMyProfile up to its first await after findById
UpdateMyProfile(r) ==
  /\ req[r].pc = "updateMyProfile"
  /\ LET q == Stage(req[r], "handler") IN
     req' = [req EXCEPT ![r] =
       IF q.user \notin DOMAIN users
         THEN NextError(q, "handler", CreateError(404, "User not found"))
       ELSE IF TruthyWord(q.body, "role")
         THEN NextError(q, "handler",
                CreateError(403, "You are not allowed to change your role"))
       ELSE IF TruthyWord(q.body, "password")
         THEN NextError(q, "handler",
                CreateError(403, "You are not allowed to change your password here. Use /users/change-password instead"))
       ELSE IF q.file # NoId /\ users[q.user].img # NoId
         THEN [q EXCEPT !.pc = "updateMyProfile.deleteOld", !.prev = users[q.user].img]
         ELSE [q EXCEPT !.pc = "updateMyProfile.save"]]
  /\ UNCHANGED <<users, albums, cloud, issued, nextUser, nextAlbum, nextAsset>>

UpdateMyProfileDeleteOld(r) ==
  /\ req[r].pc = "updateMyProfile.deleteOld"
  /\ \E destroyed \in BOOLEAN :
       cloud' = DeleteImgCloudinary(cloud, req[r].prev, destroyed)
  /\ req' = [req EXCEPT ![r].pc = "updateMyProfile.save"]
  /\ UNCHANGED <<users, albums, issued, nextUser, nextAlbum, nextAsset>>

\* the document user.save() writes: the modified paths name, email, image
UpdatedProfile(doc, body, file) ==
  [doc EXCEPT !.name = IF TruthyText(body, "name") THEN Trim(body.name) ELSE @,
              !.email = IF TruthyText(body, "email") THEN NormalizeEmail(body.email) ELSE @,
              !.img = IF file # NoId THEN file ELSE @]

\* the unique index on email
EmailTaken(store, email, self) ==
  \E u \in DOMAIN store : u # self /\ store[u].email = email

UpdateMyProfileSave(r) ==
  /\ req[r].pc = "updateMyProfile.save"
  /\ LET q == req[r] IN
     IF q.user \notin DOMAIN users
       THEN /\ req' = [req EXCEPT ![r] =
                 NextError(q, "handler", Thrown("DocumentNotFoundError"))]
            /\ UNCHANGED users
     ELSE LET doc == UpdatedProfile(users[q.user], q.body, q.file) IN
       IF doc.name = <<>> \/ doc.email = <<>>
         THEN /\ req' = [req EXCEPT ![r] =
                   NextError(q, "handler", Thrown("User validation failed"))]
              /\ UNCHANGED users
       ELSE IF EmailTaken(users, doc.email, q.user)
         THEN /\ req' = [req EXCEPT ![r] =
                   NextError(q, "handler", Thrown("E11000 duplicate key error"))]
              /\ UNCHANGED users
       ELSE /\ users' = [users EXCEPT ![q.user] = doc]
            /\ req' = [req EXCEPT ![r] =
                 SendResponse(q, 200, TRUE, "Profile updated successfully",
                              [kind |-> "user", doc |-> WithoutPassword(doc)])]
  /\ UNCHANGED <<albums, cloud, issued, nextUser, nextAlbum, nextAsset>>

\* newPassword != confirmPassword
PasswordsDifferNever(newPassword, confirmPassword) == FALSE
PasswordsDiffer(newPassword, confirmPassword) == newPassword # confirmPassword

\* changeMyPassword up to the await of user.save()
ChangeMyPassword(r) ==
  /\ req[r].pc = "changeMyPassword"
  /\ LET q == Stage(req[r], "handler")
         b == q.body IN
     req' = [req EXCEPT ![r] =
       IF ~TruthyWord(b, "currentPassword") \/ ~TruthyWord(b, "newPassword")
            \/ ~TruthyWord(b, "confirmPassword")
         THEN NextError(q, "handler", CreateError(400, "All fields are required"))
       ELSE IF PasswordsDiffer(b.newPassword, b.confirmPassword)
         THEN NextError(q, "handler", CreateError(400, "New passwords do not match"))
       ELSE IF q.user \notin DOMAIN users
         THEN NextError(q, "handler", CreateError(404, "User not found"))
       ELSE IF ~Compare(b.currentPassword, users[q.user].password)
         THEN NextError(q, "handler", CreateError(401, "Current password is incorrect"))
       ELSE IF PwLength(b.newPassword) < MinPasswordLength
         THEN NextError(q, "handler",
                CreateError(400, "Password must be at least 8 characters long"))
       ELSE [q EXCEPT !.pc = "changeMyPassword.save"]]
  /\ UNCHANGED <<users, albums, cloud, issued, nextUser, nextAlbum, nextAsset>>

\* user.save() (the pre-save hook hashes the modified password) and the response
ChangeMyPasswordSave(r) ==
  /\ req[r].pc = "changeMyPassword.save"
  /\ LET q == req[r] IN
     IF q.user \notin DOMAIN users
       THEN /\ req' = [req EXCEPT ![r] =
                 NextError(q, "handler", Thrown("DocumentNotFoundError"))]
            /\ UNCHANGED users
       ELSE /\ users' = [users EXCEPT ![q.user].password = Hash(q.body.newPassword)]
            /\ req' = [req EXCEPT ![r] =
                 SendResponse(q, 200, TRUE, "Password changed successfully",
                              [kind |-> "string", val |-> Hash(q.body.newPassword)])]
  /\ UNCHANGED <<albums, cloud, issued, nextUser, nextAlbum, nextAsset>>

\* deleteMyAccount up to its first await after findById
DeleteMyAccount(r) ==
  /\ req[r].pc = "deleteMyAccount"
  /\ LET q == Stage(req[r], "handler") IN
     IF q.user \notin DOMAIN users
       THEN /\ req' = [req EXCEPT ![r] =
                 NextError(q, "handler", CreateError(404, "User not found"))]
            /\ UNCHANGED <<users, cloud>>
     ELSE IF users[q.user].img # NoId
       THEN /\ \E destroyed \in BOOLEAN :
                 cloud' = DeleteImgCloudinary(cloud, users[q.user].img, destroyed)
            /\ req' = [req EXCEPT ![r] =
                 [q EXCEPT !.pc = "deleteMyAccount.delete",
                           !.data = [kind |-> "user", doc |-> users[q.user]]]]
            /\ UNCHANGED users
     ELSE /\ users' = Drop(users, q.user)
          /\ req' = [req EXCEPT ![r] =
               SendResponse(q, 200, TRUE, "Account deleted successfully",
                            [kind |-> "user", doc |-> users[q.user]])]
          /\ UNCHANGED cloud
  /\ UNCHANGED <<albums, issued, nextUser, nextAlbum, nextAsset>>

DeleteMyAccountDelete(r) ==
  /\ req[r].pc = "deleteMyAccount.delete"
  /\ users' = Drop(users, req[r].user)
  /\ req' = [req EXCEPT ![r] =
       SendResponse(@, 200, TRUE, "Account deleted successfully", @.data)]
  /\ UNCHANGED <<albums, cloud, issued, nextUser, nextAlbum, nextAsset>>


(***************************************************************************)
(* auth.controllers                                                        *)
(***************************************************************************)
Roles == {"user", "admin"}

\* new User(req.body): the schema's setters and the default of role
NewUser(id, body, file) ==
  [id |-> id, name |-> Trim(body.name), email |-> NormalizeEmail(body.email),
   password |-> body.password,
   role |-> IF Has(body, "role") THEN body.role ELSE "user",
   img |-> file]

\* the schema's validators, run by save() on the plain password
UserValid(doc) ==
  /\ doc.name # <<>>
  /\ doc.email # <<>>
  /\ doc.password # "" /\ PwLength(doc.password) >= MinPasswordLength
  /\ doc.role \in Roles

\* registerUser up to its first await after findOne
RegisterUser(r) ==
  /\ req[r].pc = "registerUser"
  /\ LET q == Stage(req[r], "handler")
         exists == \E u \in DOMAIN users : users[u].email = NormalizeEmail(q.body.email)
     IN req' = [req EXCEPT ![r] =
          IF exists
            THEN IF q.file # NoId
                   THEN [q EXCEPT !.pc = "registerUser.exists"]
                   ELSE NextError(q, "handler", CreateError(400, "This user already exists"))
            ELSE [q EXCEPT !.pc = "registerUser.save"]]
  /\ UNCHANGED <<users, albums, cloud, issued, nextUser, nextAlbum, nextAsset>>

\* the email exists and a file was uploaded: it is destroyed, then 400 is thrown
RegisterUserExists(r) ==
  /\ req[r].pc = "registerUser.exists"
  /\ \E destroyed \in BOOLEAN :
       cloud' = DeleteImgCloudinary(cloud, req[r].file, destroyed)
  /\ req' = [req EXCEPT ![r] =
       Catch(@, CreateError(400, "This user already exists"), "registerUser.catch")]
  /\ UNCHANGED <<users, albums, issued, nextUser, nextAlbum, nextAsset>>

\* user.save() (the pre-save hook hashes the password) and the response
RegisterUserSave(r) ==
  /\ req[r].pc = "registerUser.save"
  /\ LET q == req[r]
         doc == NewUser(nextUser, q.body, q.file) IN
     IF ~UserValid(doc)
       THEN /\ req' = [req EXCEPT ![r] =
                 Catch(q, Thrown("User validation failed"), "registerUser.catch")]
            /\ UNCHANGED <<users, nextUser>>
     ELSE IF EmailTaken(users, doc.email, NoId)
       THEN /\ req' = [req EXCEPT ![r] =
                 Catch(q, Thrown("E11000 duplicate key error"), "registerUser.catch")]
            /\ UNCHANGED <<users, nextUser>>
     ELSE LET saved == [doc EXCEPT !.password = Hash(@)] IN
          /\ users' = Put(users, nextUser, saved)
          /\ nextUser' = nextUser + 1
          /\ req' = [req EXCEPT ![r] =
               SendResponse(q, 201, TRUE, "User registered successfully",
                            [kind |-> "user", doc |-> saved])]
  /\ UNCHANGED <<albums, cloud, issued, nextAlbum, nextAsset>>

RegisterUserCatch(r) ==
  /\ req[r].pc = "registerUser.catch"
  /\ \E destroyed \in BOOLEAN :
       /\ cloud' = DeleteImgCloudinary(cloud, req[r].file, destroyed)
       /\ req' = [req EXCEPT ![r] = AfterCleanup(@, destroyed)]
  /\ UNCHANGED <<users, albums, issued, nextUser, nextAlbum, nextAsset>>

LoginUser(r) ==
  /\ req[r].pc = "loginUser"
  /\ LET q == Stage(req[r], "handler")
         found == {u \in DOMAIN users : users[u].email = q.body.email} IN
     IF found = {}
       THEN /\ req' = [req EXCEPT ![r] =
                 NextError(q, "handler", CreateError(404, "User not found"))]
            /\ UNCHANGED issued
     ELSE LET u == CHOOSE x \in found : TRUE IN
       IF Compare(q.body.password, users[u].password)
         THEN /\ issued' = issued \cup {u}
              /\ req' = [req EXCEPT ![r] =
                   SendResponse(q, 200, TRUE, "Token created successfully",
                                [kind |-> "token", tok |-> GenerateToken(u)])]
         ELSE /\ req' = [req EXCEPT ![r] =
                   NextError(q, "handler", CreateError(401, "Invalid credentials"))]
              /\ UNCHANGED issued
  /\ UNCHANGED <<users, albums, cloud, nextUser, nextAlbum, nextAsset>>


(***************************************************************************)
(* Clients.  A slot holds one connection: a request is sent on a free slot,  *)
(* and the slot is free again once its response has been read.             *)
(***************************************************************************)
Idle == NewRequest("idle", NoToken, NoId, [valid |-> TRUE], NoId)

Free(r) == req[r].pc = "idle"
InFlight(route) ==
  Cardinality({s \in Slots : req[s].route = route /\ req[s].pc \notin {"idle", "done"}})

\* the response has been sent and read: the connection ends
Close(r) ==
  /\ req[r].pc = "done"
  /\ req' = [req EXCEPT ![r] = Idle]
  /\ UNCHANGED <<users, albums, cloud, issued, nextUser, nextAlbum, nextAsset>>

\* any Authorization header a client can build: none, junk, a token it was given
Tokens == {NoToken, BadToken} \cup {GenerateToken(u) : u \in issued}

\* the request enters the server; an attached file gets a fresh public_id
Send(r, route, tok, pid, body, attach) ==
  /\ Free(r)
  /\ route = "postAlbum" => nextAlbum + InFlight("postAlbum") <= MaxAlbums
  /\ route = "registerUser" => nextUser + InFlight("registerUser") <= MaxUsers
  /\ attach => nextAsset <= MaxAssets
  /\ req' = [req EXCEPT ![r] =
       NewRequest(route, tok, pid, body, IF attach THEN nextAsset ELSE NoId)]
  /\ nextAsset' = IF attach THEN nextAsset + 1 ELSE nextAsset
  /\ UNCHANGED <<users, albums, cloud, issued, nextUser, nextAlbum>>

\* texts a client types
Names == {<<"n">>}
Emails == {<<"a">>, <<"b">>}
PlainTitles == {<<"a">>}
PlainArtists == {<<<<"x">>>>}
NoBody == [valid |-> TRUE]

RegisterBodies ==
  {[name |-> n, email |-> e, password |-> PwLong] : n \in Names, e \in Emails}
  \cup {[name |-> n, email |-> <<"a">>, password |-> PwLong, role |-> "admin"] :
     n \in Names}
LoginBodies ==
  {[email |-> e, password |-> PwLong] : e \in Emails}
  \cup {[email |-> <<"a">>, password |-> PwOther]}
PostAlbumBodies ==
  {[title |-> t, artists |-> a, valid |-> v] :
     t \in PlainTitles, a \in PlainArtists, v \in BOOLEAN}
UpdateAlbumBodies ==
  {[valid |-> TRUE], [valid |-> FALSE]}
  \cup {[valid |-> TRUE, addedBy |-> u] : u \in DOMAIN users}
UpdateProfileBodies == {[name |-> <<"n">>], [role |-> "admin"]}
ChangePasswordBodies ==
  {[currentPassword |-> PwLong, newPassword |-> PwLong, confirmPassword |-> PwOther],
   [currentPassword |-> PwLong, newPassword |-> PwLong, confirmPassword |-> PwLong]}

SendRegister(r, bodies, attachments) ==
  \E body \in bodies, attach \in attachments :
    Send(r, "registerUser", NoToken, NoId, body, attach)

SendLogin(r, bodies) ==
  \E body \in bodies : Send(r, "loginUser", NoToken, NoId, body, FALSE)

\* the routes that take neither a parameter nor a body
SendPlain(r, routes, toks) ==
  \E route \in routes, tok \in toks : Send(r, route, tok, NoId, NoBody, FALSE)

SendPostAlbum(r, toks, bodies, attachments) ==
  \E tok \in toks, body \in bodies, attach \in attachments :
    Send(r, "postAlbum", tok, NoId, body, attach)

SendAlbumById(r, routes, toks) ==
  \E route \in routes, tok \in toks, pid \in 1..MaxAlbums :
    Send(r, route, tok, pid, NoBody, FALSE)

SendUpdateAlbum(r, toks, bodies, attachments) ==
  \E tok \in toks, pid \in 1..MaxAlbums, body \in bodies, attach \in attachments :
    Send(r, "updateAlbum", tok, pid, body, attach)

SendDeleteUser(r, toks) ==
  \E tok \in toks, pid \in 1..MaxUsers :
    Send(r, "deleteUser", tok, pid, NoBody, FALSE)

SendUpdateMyProfile(r, toks, bodies, attachments) ==
  \E tok \in toks, body \in bodies, attach \in attachments :
    Send(r, "updateMyProfile", tok, NoId, body, attach)

SendChangeMyPassword(r, toks, bodies) ==
  \E tok \in toks, body \in bodies :
    Send(r, "changeMyPassword", tok, NoId, body, FALSE)

(***************************************************************************)
(* The server after start-up: empty collections, nothing in flight.        *)
(***************************************************************************)
Init ==
  /\ users = <<>>
  /\ albums = <<>>
  /\ cloud = {}
  /\ issued = {}
  /\ nextUser = 1
  /\ nextAlbum = 1
  /\ nextAsset = 1
  /\ req = [r \in Slots |-> Idle]

(***************************************************************************)
(* Spec: every route of the API, one request at a time, requests without   *)
(* attached files.                                                         *)
(***************************************************************************)
Next ==
  \E r \in {"r1"} :
    \/ SendRegister(r, RegisterBodies, {FALSE})
    \/ SendLogin(r, LoginBodies)
    \/ SendPlain(r, {"getMyAlbums", "getMyProfile", "deleteMyAccount", "getAllAlbums",
                     "getAllUsers"}, Tokens)
    \/ SendPostAlbum(r, Tokens, PostAlbumBodies, {FALSE})
    \/ SendAlbumById(r, {"getAlbumById", "deleteAlbum", "adminDeleteAlbum"}, Tokens)
    \/ SendUpdateAlbum(r, Tokens, UpdateAlbumBodies, {FALSE})
    \/ SendDeleteUser(r, Tokens)
    \/ SendUpdateMyProfile(r, Tokens, UpdateProfileBodies, {FALSE})
    \/ SendChangeMyPassword(r, Tokens, ChangePasswordBodies)
    \/ Close(r)
    \/ IsAuth(r) \/ IsOwner(r) \/ Upload(r)
    \/ RegisterUser(r) \/ RegisterUserSave(r) \/ LoginUser(r)
    \/ GetMyAlbums(r) \/ GetAlbumById(r)
    \/ PostAlbum(r) \/ PostAlbumSave(r)
    \/ UpdateAlbum(r) \/ UpdateAlbumUpdate(r)
    \/ DeleteAlbum(r)
    \/ GetAllAlbums(r) \/ AdminDeleteAlbum(r) \/ GetAllUsers(r) \/ DeleteUser(r)
    \/ GetMyProfile(r) \/ UpdateMyProfile(r) \/ UpdateMyProfileSave(r)
    \/ ChangeMyPassword(r) \/ ChangeMyPasswordSave(r)
    \/ DeleteMyAccount(r)

Spec == Init /\ [][Next]_vars


(***************************************************************************)
(* Properties of the guard chain (under Spec).                             *)
(***************************************************************************)
IsPrefix(s, t) == Len(s) <= Len(t) /\ \A i \in 1..Len(s) : s[i] = t[i]

\* the stages of a guarded route, in the order of the spec's pipeline
Chain(route) ==
  <<"token", "verify", "principal", "role">>
  \o (IF route \in OwnerRoutes THEN <<"owner">> ELSE <<>>)
  \o <<"handler">>

GuardStages == {"token", "verify", "principal", "role", "owner"}

StageStatus(stage) ==
  CASE stage = "token" -> {401}
    [] stage = "verify" -> {401}
    [] stage = "principal" -> {401}
    [] stage = "role" -> {403}
    [] stage = "owner" -> {403, 404}

\* C1: on a guarded route the stages run in the order token, verify, principal,
\* role, owner; a stage that fails ends the request with that stage's error and
\* is the last thing that ran; the handler has run only for a request whose
\* token verified, whose principal was loaded, whose role the route allows and,
\* on an :id album route, whose principal owns the loaded album.
C1_GuardOrder ==
  \A r \in Slots :
    LET q == req[r] IN
    q.route \in GuardedRoutes =>
      /\ IsPrefix(q.trace, Chain(q.route))
      /\ q.failed \in GuardStages =>
           /\ q.pc = "done" /\ ~q.success
           /\ q.trace # <<>> /\ q.trace[Len(q.trace)] = q.failed
           /\ q.status \in StageStatus(q.failed)
      /\ (q.pc # "isAuth" /\ q.tok.kind = "none") => q.failed = "token"
      /\ (q.pc # "isAuth" /\ q.tok.kind = "bad") => q.failed = "verify"
      /\ "handler" \in Range(q.trace) =>
           /\ q.tok.kind = "jwt" /\ q.user = q.tok.id
           /\ q.route \in AdminRoutes => q.role = "admin"
           /\ q.route \in OwnerRoutes =>
                q.album # NoAlbum /\ q.album.id = q.pid /\ q.album.addedBy = q.user

C1_Witness ==
  \E r \in Slots :
    /\ req[r].pc = "done" /\ req[r].route = "getAlbumById"
    /\ req[r].failed = "owner" /\ req[r].status = 404
    /\ req[r].trace = <<"token", "verify", "principal", "role", "owner">>

\* C2: when isOwner runs for principal p on /albums/:id: no album with that id
\* gives 404; an album owned by someone else gives 403, no data, no handler and
\* an unchanged collection; an album owned by p is handed to the next stage.
\* And the handler of such a route only ever runs with p's own album in req.album.
C2_OwnershipGate ==
  /\ [][\A r \in Slots :
         (req[r].pc = "isOwner" /\ req'[r].pc # "isOwner") =>
           LET q == req[r]
               p == req'[r] IN
           /\ q.route \in OwnerRoutes /\ q.user # NoId
           /\ IF q.pid \notin DOMAIN albums
                THEN p.pc = "done" /\ p.status = 404 /\ "handler" \notin Range(p.trace)
              ELSE IF albums[q.pid].addedBy # q.user
                THEN /\ p.pc = "done" /\ p.status = 403 /\ p.data = Null
                     /\ "handler" \notin Range(p.trace)
                     /\ albums' = albums
              ELSE /\ p.pc \in {q.route, "upload"}
                   /\ p.album = albums[q.pid]
                   /\ albums' = albums]_vars
  /\ [](\A r \in Slots :
          (req[r].route \in OwnerRoutes /\ "handler" \in Range(req[r].trace)) =>
            req[r].album.id = req[r].pid /\ req[r].album.addedBy = req[r].user)

C2_Witness ==
  \E r \in Slots :
    /\ req[r].pc = "done" /\ req[r].route = "updateAlbum"
    /\ req[r].status = 403 /\ req[r].failed = "owner"
    /\ req[r].pid \in DOMAIN albums
    /\ albums[req[r].pid].addedBy # req[r].user

\* C3: once the principal is loaded, the role gate lets the request through
\* when the route's allowed-role list is empty or holds the principal's role,
\* and otherwise ends it with 403.
C3_RoleGate ==
  \A r \in Slots :
    LET q == req[r] IN
    (q.route \in GuardedRoutes /\ q.user # NoId) =>
      IF AllowedRoles(q.route) = <<>> \/ q.role \in Range(AllowedRoles(q.route))
        THEN "role" \in Range(q.trace) /\ q.failed # "role"
        ELSE q.pc = "done" /\ q.status = 403 /\ q.failed = "role"

C3_Witness ==
  \E r \in Slots :
    /\ req[r].route \in AdminRoutes /\ req[r].role = "admin"
    /\ "handler" \in Range(req[r].trace)

\* C4: the isAuth step of a request on an /admin route whose token names a
\* stored principal that is not an admin ends the request with 403 and changes
\* neither the users nor the albums.
C4_NonAdminDenied ==
  [][\A r \in Slots :
       (/\ req[r].pc = "isAuth" /\ req'[r].pc # "isAuth"
        /\ req[r].route \in AdminRoutes
        /\ req[r].tok.kind = "jwt"
        /\ req[r].tok.id \in DOMAIN users
        /\ users[req[r].tok.id].role # "admin")
       => /\ req'[r].pc = "done" /\ req'[r].status = 403 /\ ~req'[r].success
          /\ users' = users /\ albums' = albums]_vars

C4_Witness ==
  \E r \in Slots :
    /\ req[r].pc = "done" /\ req[r].route = "deleteUser"
    /\ req[r].role = "user" /\ req[r].status = 403
    /\ req[r].pid \in DOMAIN users /\ req[r].pid # req[r].user

\* C9: an album's owner never changes while the album is stored.
C9_OwnerNeverChanges ==
  [][\A a \in DOMAIN albums \cap DOMAIN albums' :
       albums'[a].addedBy = albums[a].addedBy]_vars

\* C10: when an admin's DELETE /admin/albums/:id handler answers for an album
\* that exists, the answer is 200 and the album is gone.
C10_AdminDeletesAlbum ==
  [][\A r \in Slots :
       (/\ req[r].pc = "adminDeleteAlbum" /\ req'[r].pc = "done"
        /\ req[r].role = "admin"
        /\ req[r].pid \in DOMAIN albums)
       => req'[r].status = 200 /\ req[r].pid \notin DOMAIN albums']_vars

\* C12: the isAuth step of a request on a guarded route whose token was issued
\* to a user that is no longer stored ends the request with 401 at the
\* principal stage, although the token verifies; no handler runs for it.
C12_DeletedPrincipalRejected ==
  [][\A r \in Slots :
       (/\ req[r].pc = "isAuth" /\ req'[r].pc # "isAuth"
        /\ req[r].route \in GuardedRoutes
        /\ req[r].tok.kind = "jwt"
        /\ req[r].tok.id \in issued
        /\ req[r].tok.id \notin DOMAIN users)
       => /\ VerifyToken(req[r].tok).ok
          /\ req'[r].pc = "done" /\ req'[r].status = 401 /\ ~req'[r].success
          /\ req'[r].failed = "principal"
          /\ req'[r].trace = <<"token", "verify", "principal">>
          /\ UNCHANGED <<users, albums, cloud>>]_vars

C12_Witness ==
  \E r \in Slots :
    /\ req[r].pc = "done" /\ req[r].route \in GuardedRoutes
    /\ req[r].tok.kind = "jwt" /\ req[r].tok.id \in issued
    /\ req[r].tok.id \notin DOMAIN users
    /\ req[r].failed = "principal" /\ req[r].status = 401

HoldsHash(data) ==
  \/ data.kind = "user" /\ "password" \in DOMAIN data.doc
  \/ data.kind = "users" /\ \E i \in 1..Len(data.docs) : "password" \in DOMAIN data.docs[i]
  \/ data.kind = "string" /\ \E p \in {PwShort, PwLong, PwOther} : data.val = Hash(p)

\* C15: no response carries a stored password hash in its data.
C15_NoHashInResponse ==
  \A r \in Slots : req[r].pc = "done" => ~HoldsHash(req[r].data)

\* C17: when an admin's DELETE /admin/users/:id handler answers for an id that
\* names no stored user, the answer is 404 and no user is deleted.
C17_AdminDeleteUnknownUser404 ==
  [][\A r \in Slots :
       (/\ req[r].pc = "deleteUser" /\ req'[r].pc = "done"
        /\ req[r].role = "admin"
        /\ req[r].pid \notin DOMAIN users)
       => req'[r].status = 404 /\ users' = users]_vars

\* C20: no stored user has the role admin (no admin is seeded, so every stored
\* user was made by the public registration route).
C20_NoSelfMadeAdmin ==
  \A u \in DOMAIN users : users[u].role = "user"

\* C21: the owner of every stored album is a stored user.
C21_OwnerExists ==
  \A a \in DOMAIN albums : albums[a].addedBy \in DOMAIN users


(***************************************************************************)
(* SpecDup: registered users post albums, one request at a time, with      *)
(* titles and artist lists that differ in case, surrounding blanks, order   *)
(* and multiplicity.                                                       *)
(***************************************************************************)
ValidTokens == {GenerateToken(u) : u \in issued}

DupTitles == {<<"a">>, <<"A", " ">>, <<"b">>}
DupArtists ==
  {<< <<"x">> >>, << <<"x">>, <<"y">> >>, << <<"y">>, <<"x">> >>,
   << <<"x">>, <<"x">> >>, << <<" ", "X">> >>}
DupBodies == {[title |-> t, artists |-> a, valid |-> TRUE] : t \in DupTitles, a \in DupArtists}
UserRegisterBodies == {[name |-> <<"n">>, email |-> e, password |-> PwLong] : e \in Emails}
UserLoginBodies == {[email |-> e, password |-> PwLong] : e \in Emails}

NextDup ==
  \E r \in {"r1"} :
    \/ SendRegister(r, UserRegisterBodies, {FALSE})
    \/ SendLogin(r, UserLoginBodies)
    \/ SendPostAlbum(r, ValidTokens, DupBodies, {FALSE})
    \/ Close(r)
    \/ IsAuth(r) \/ Upload(r)
    \/ RegisterUser(r) \/ RegisterUserSave(r) \/ LoginUser(r)
    \/ PostAlbum(r) \/ PostAlbumSave(r)

SpecDup == Init /\ [][NextDup]_vars

\* the step of postAlbum in which the duplicate lookup is answered
Lookup(r) == req[r].pc = "postAlbum" /\ req'[r].pc # "postAlbum"
Rejected(q) == q.failed = "handler" /\ q.err.status = 400

\* equal after trimming and lower-casing, artist by artist
Equivalent(doc, body) ==
  /\ NormalizeTitle(doc.title) = NormalizeTitle(body.title)
  /\ NormalizeArtists(doc.artists) = NormalizeArtists(BodyArtists(body))

\* C5: a POST /albums whose title and artists equal, after trimming and
\* lower-casing, those of an album the same owner has stored is answered 400
\* and stores nothing.
C5_SecondPostRejected ==
  [][\A r \in Slots :
       (/\ Lookup(r)
        /\ \E a \in DOMAIN albums :
             albums[a].addedBy = req[r].user /\ Equivalent(albums[a], req[r].body))
       => /\ req'[r].pc = "done" /\ req'[r].status = 400
          /\ albums' = albums]_vars

Count(s, x) == Cardinality({i \in 1..Len(s) : s[i] = x})
SameMultiset(s, t) ==
  /\ Len(s) = Len(t)
  /\ \A x \in Range(s) \cup Range(t) : Count(s, x) = Count(t, x)

\* C6: the lookup reports a duplicate exactly when the owner has a stored album
\* with the same normalized title and the same multiset of normalized artists.
C6_DuplicateIff ==
  [][\A r \in Slots :
       Lookup(r) =>
         (Rejected(req'[r]) <=>
            \E a \in DOMAIN albums :
              /\ albums[a].addedBy = req[r].user
              /\ NormalizeTitle(albums[a].title) = NormalizeTitle(req[r].body.title)
              /\ SameMultiset(NormalizeArtists(albums[a].artists),
                              NormalizeArtists(BodyArtists(req[r].body))))]_vars

\* C7: a POST /albums is rejected as a duplicate only when the caller owns a
\* stored album with the requested (normalized) title and as many artists;
\* what other owners have stored never rejects it.
C7_DuplicateOnlyOwn ==
  [][\A r \in Slots :
       (Lookup(r) /\ Rejected(req'[r])) =>
         \E a \in DOMAIN albums :
           /\ albums[a].addedBy = req[r].user
           /\ albums[a].title = NormalizeTitle(req[r].body.title)
           /\ Len(albums[a].artists) = Len(BodyArtists(req[r].body))]_vars

C7_Witness ==
  \E a, b \in DOMAIN albums :
    /\ albums[a].addedBy # albums[b].addedBy
    /\ albums[a].title = albums[b].title /\ albums[a].artists = albums[b].artists
    /\ albums[a].title = NormalizeTitle(albums[a].title)
    /\ albums[a].artists # <<>>
    /\ \E r \in Slots :
         /\ req[r].pc = "done" /\ req[r].route = "postAlbum" /\ req[r].status = 201
         /\ req[r].data.doc = albums[b]

(***************************************************************************)
(* SpecRace: two connections; the same plain album is posted on both.      *)
(***************************************************************************)
RaceBodies ==
  {[title |-> t, artists |-> a, valid |-> TRUE] : t \in PlainTitles, a \in PlainArtists}

NextRace ==
  \E r \in Slots :
    \/ SendRegister(r, UserRegisterBodies, {FALSE})
    \/ SendLogin(r, UserLoginBodies)
    \/ SendPostAlbum(r, ValidTokens, RaceBodies, {FALSE})
    \/ Close(r)
    \/ IsAuth(r) \/ Upload(r)
    \/ RegisterUser(r) \/ RegisterUserSave(r) \/ LoginUser(r)
    \/ PostAlbum(r) \/ PostAlbumSave(r)

SpecRace == Init /\ [][NextRace]_vars

SameAlbum(doc, q) ==
  /\ doc.addedBy = q.user
  /\ doc.title = CastTitle(q.body.title)
  /\ doc.artists = CastArtists(BodyArtists(q.body))

\* C8: a POST /albums whose lookup found no duplicate saves and answers 201
\* even when, by the time it saves, the same owner's other request has stored
\* the same title and artists; the collection then holds both.
C8_RaceBothSucceed ==
  [][\A r \in Slots :
       (/\ req[r].pc = "postAlbum.save" /\ req'[r].pc # "postAlbum.save"
        /\ \E a \in DOMAIN albums : SameAlbum(albums[a], req[r]))
       => /\ req'[r].pc = "done" /\ req'[r].status = 201
          /\ Cardinality({a \in DOMAIN albums' : SameAlbum(albums'[a], req[r])}) >= 2]_vars

C8_Witness ==
  /\ \A r \in Slots : req[r].pc = "done" /\ req[r].route = "postAlbum" /\ req[r].status = 201
  /\ \E r, s \in Slots : r # s /\ req[r].user = req[s].user /\ req[r].body = req[s].body
  /\ \E a, b \in DOMAIN albums :
       a # b /\ albums[a].addedBy = albums[b].addedBy
       /\ albums[a].title = albums[b].title /\ albums[a].artists = albums[b].artists


(***************************************************************************)
(* SpecAccount: registered users edit their profile, with and without a    *)
(* new profile image, and change their password, one request at a time.    *)
(***************************************************************************)
AccountLoginBodies ==
  {[email |-> e, password |-> p] : e \in Emails, p \in {PwLong, PwOther}}

\* currentPassword, newPassword, confirmPassword: each absent, empty or typed
AccountPasswordBodies ==
  {[currentPassword |-> c, newPassword |-> n, confirmPassword |-> k] :
     c \in {"", PwLong, PwOther}, n \in {"", PwShort, PwOther}, k \in {"", PwShort, PwOther}}
  \cup {[newPassword |-> PwOther, confirmPassword |-> PwOther]}

AccountProfileBodies ==
  {[name |-> <<"m">>], [email |-> <<"B">>], [role |-> "admin"], [role |-> ""],
   [password |-> PwOther], [name |-> <<"m">>, role |-> "user"],
   [email |-> <<"c">>, password |-> PwOther]}

NextAccount ==
  \E r \in {"r1"} :
    \/ SendRegister(r, UserRegisterBodies, BOOLEAN)
    \/ SendLogin(r, AccountLoginBodies)
    \/ SendUpdateMyProfile(r, ValidTokens, AccountProfileBodies, BOOLEAN)
    \/ SendChangeMyPassword(r, ValidTokens, AccountPasswordBodies)
    \/ Close(r)
    \/ IsAuth(r) \/ Upload(r)
    \/ RegisterUser(r) \/ RegisterUserExists(r) \/ RegisterUserSave(r)
    \/ RegisterUserCatch(r) \/ LoginUser(r)
    \/ UpdateMyProfile(r) \/ UpdateMyProfileDeleteOld(r) \/ UpdateMyProfileSave(r)
    \/ ChangeMyPassword(r) \/ ChangeMyPasswordSave(r)

SpecAccount == Init /\ [][NextAccount]_vars

\* the step in which the request on `route` in slot r gets its response
Answered(r, route) ==
  req[r].route = route /\ req[r].pc \notin {"idle", "done", "isAuth"} /\ req'[r].pc = "done"

\* the reasons for which changeMyPassword refuses, on the body and the stored hash
PasswordRefused(b, stored) ==
  \/ ~TruthyWord(b, "currentPassword") \/ ~TruthyWord(b, "newPassword")
  \/ ~TruthyWord(b, "confirmPassword")
  \/ b.newPassword # b.confirmPassword
  \/ ~Compare(b.currentPassword, stored)
  \/ PwLength(b.newPassword) < MinPasswordLength

\* C11: a changeMyPassword call whose newPassword differs from confirmPassword
\* is answered 400; a call with a missing field, a mismatch, a wrong current
\* password or a new password shorter than 8 is answered with an error; and no
\* call answered with an error changes any stored user.
C11_FailedChangeKeepsCredential ==
  [][\A r \in Slots :
       Answered(r, "changeMyPassword") =>
         LET b == req[r].body IN
         /\ ~req'[r].success => users' = users
         /\ (/\ TruthyWord(b, "newPassword") /\ TruthyWord(b, "confirmPassword")
             /\ TruthyWord(b, "currentPassword")
             /\ b.newPassword # b.confirmPassword)
            => req'[r].status = 400 /\ users' = users
         /\ PasswordRefused(b, users[req[r].user].password)
            => ~req'[r].success /\ req'[r].status \in {400, 401}]_vars

C11_Witness ==
  \E r \in Slots :
    /\ req[r].pc = "done" /\ req[r].route = "changeMyPassword"
    /\ req[r].status = 400 /\ req[r].msg = "New passwords do not match"
    /\ req[r].user \in DOMAIN users
    /\ Compare(req[r].body.currentPassword, users[req[r].user].password)
    /\ PwLength(req[r].body.newPassword) >= MinPasswordLength


(***************************************************************************)
(* SpecUpload: the album routes with attached images and registrations     *)
(* that fail after their image was uploaded, one request at a time; bodies *)
(* that fail validation and bodies that name an owner of their own.        *)
(***************************************************************************)
\* a registration the schema refuses (password shorter than 8)
ShortRegisterBodies == {[name |-> <<"n">>, email |-> <<"a">>, password |-> PwShort]}

UploadPostBodies ==
  {[title |-> t, artists |-> a, valid |-> v] :
     t \in PlainTitles, a \in PlainArtists, v \in BOOLEAN}
  \cup {[title |-> <<"a">>, artists |-> << <<"x">> >>, valid |-> TRUE, addedBy |-> u] :
          u \in 1..MaxUsers}
  \cup {[valid |-> TRUE]}

UploadUpdateBodies ==
  {[valid |-> TRUE], [valid |-> FALSE]}

NextUpload ==
  \E r \in {"r1"} :
    \/ SendRegister(r, UserRegisterBodies, {FALSE})
    \/ SendRegister(r, ShortRegisterBodies, {TRUE})
    \/ SendLogin(r, UserLoginBodies)
    \/ SendPostAlbum(r, ValidTokens, UploadPostBodies, BOOLEAN)
    \/ SendUpdateAlbum(r, ValidTokens, UploadUpdateBodies, BOOLEAN)
    \/ Close(r)
    \/ IsAuth(r) \/ IsOwner(r) \/ Upload(r)
    \/ RegisterUser(r) \/ RegisterUserExists(r) \/ RegisterUserSave(r)
    \/ RegisterUserCatch(r) \/ LoginUser(r)
    \/ PostAlbum(r) \/ PostAlbumSave(r) \/ PostAlbumCatch(r)
    \/ UpdateAlbum(r) \/ UpdateAlbumUpdate(r) \/ UpdateAlbumDeleteOld(r)
    \/ UpdateAlbumCatch(r)

SpecUpload == Init /\ [][NextUpload]_vars

\* C14: a POST /albums answered with success is answered 201 and has stored
\* exactly one new album, the one returned, whose owner is the caller, also
\* when the body names another owner.
C14_CreatedAlbumOwnedByCaller ==
  [][\A r \in Slots :
       (Answered(r, "postAlbum") /\ req'[r].success) =>
         /\ req'[r].status = 201
         /\ \E a \in DOMAIN albums' \ DOMAIN albums :
              /\ DOMAIN albums' = DOMAIN albums \cup {a}
              /\ albums'[a].addedBy = req[r].user
              /\ req[r].user = req[r].tok.id
              /\ req'[r].data = [kind |-> "album", doc |-> albums'[a]]]_vars

C14_Witness ==
  \E r \in Slots :
    /\ req[r].pc = "done" /\ req[r].route = "postAlbum" /\ req[r].status = 201
    /\ Has(req[r].body, "addedBy") /\ req[r].body.addedBy # req[r].user
    /\ req[r].body.addedBy \in DOMAIN users
    /\ req[r].data.doc.addedBy = req[r].user

\* the request in slot r asks PUT /users/me for a (non-empty) role or password
Restricted(q) ==
  /\ q.route = "updateMyProfile"
  /\ (Has(q.body, "role") /\ q.body.role # "") \/ (Has(q.body, "password") /\ q.body.password # "")

CatchPcs == {"postAlbum.catch", "updateAlbum.catch", "registerUser.catch"}

\* C16: the step that ends a catch block (the uploaded file's deletion has been
\* attempted) answers with the error the handler threw: its status (500 when it
\* has none) and its message, whether or not the deletion removed the asset.
C16_CleanupFailureNotEscalated ==
  [][\A r \in Slots :
       (req[r].pc \in CatchPcs /\ req'[r].pc # req[r].pc) =>
         LET q == req[r]
             p == req'[r] IN
         /\ q.file # NoId /\ q.failed = "handler"
         /\ p.pc = "done" /\ ~p.success
         /\ p.err = q.err
         /\ p.status = (IF q.err.status # 0 THEN q.err.status ELSE 500)
         /\ p.msg = (IF q.err.msg # "" THEN q.err.msg ELSE "Unexpected error")
         /\ cloud' \in {cloud, cloud \ {q.file}}]_vars

\* the cleanup failed (the asset is still at the image host) and the answer is
\* the handler's own 400
C16_Witness ==
  \E r \in Slots :
    /\ req[r].pc = "done" /\ req[r].route = "postAlbum"
    /\ req[r].file # NoId /\ req[r].file \in cloud
    /\ req[r].status = 400
    /\ req[r].msg = "This album already exists in your collection"

\* C19: (1) a POST /albums or PUT /albums/:id with an uploaded cover that fails
\* in the handler is answered only from the end of the catch block, i.e. after
\* deleteImgCloudinary was called on the new asset, and stores nothing;
\* (2) the previous cover of an album is removed only by the step that follows
\* a successful update, when the album already points at the new cover;
\* (3) after a failed PUT the album still has its previous cover, and every
\* cover a stored album points at is at the image host.
C19_CoverCleanup ==
  /\ [][\A r \in Slots :
         LET q == req[r]
             p == req'[r] IN
         /\ (/\ q.route \in {"postAlbum", "updateAlbum"} /\ q.file # NoId
             /\ q.pc # "done" /\ p.pc = "done" /\ p.failed = "handler")
            => /\ q.pc \in {"postAlbum.catch", "updateAlbum.catch"}
               /\ cloud' \in {cloud \ {q.file}, cloud}
               /\ albums' = albums
               /\ (q.route = "updateAlbum" /\ q.pid \in DOMAIN albums) =>
                    albums[q.pid].coverArtId = q.prev
         /\ (/\ q.route = "updateAlbum" /\ p # q /\ q.prev # NoId
             /\ q.prev \in cloud /\ q.prev \notin cloud')
            => /\ q.pc = "updateAlbum.deleteOld"
               /\ albums[q.pid].coverArtId = q.file /\ q.file # q.prev
               /\ p.pc = "done" /\ p.success]_vars
  /\ [](\A a \in DOMAIN albums :
          albums[a].coverArtId # NoId => albums[a].coverArtId \in cloud)

C19_Witness ==
  \E r \in Slots :
    /\ req[r].pc = "done" /\ req[r].route = "updateAlbum"
    /\ req[r].failed = "handler" /\ req[r].file # NoId
    /\ req[r].file \notin cloud
    /\ req[r].prev # NoId /\ req[r].prev \in cloud
    /\ albums[req[r].pid].coverArtId = req[r].prev

====
